---- MODULE Spec2Model ----
(***************************************************************************)
(* TabRouter (src/src/routers/TabRouter.js): the router factory's closed   *)
(* over settings, the navigation state a caller threads through            *)
(* getStateForAction, and the dispatcher itself.                           *)
(*                                                                         *)
(* JavaScript object identity is modelled by a `ref' tag on every object:  *)
(*   state.ref     "input"   the object the caller passed in               *)
(*                 "default" the object built at lines 74-77               *)
(*                 "copy"    an object built by a {...state, ...} literal  *)
(*   state.routesRef  the same three tags for the routes array             *)
(*   route.ref     "held"    the route object already in state.routes      *)
(*                 "child"   an object a child router returned that is     *)
(*                           not the one it was given                      *)
(* so that `a !== b' of the source is inequality of the tagged records.    *)
(* Indexes are 0-based as in the source; At reads a 0-based position.      *)
(***************************************************************************)
EXTENDS Integers, Sequences, FiniteSets

\* Number of tabs of the router under analysis.
NumTabs == 3

\* At most this many of the tabs own a child router.
MaxNavigators == 2

TabNames == <<"Home", "Settings", "Profile", "Feed", "Inbox">>

\* line 33: const order = config.order || Object.keys(routeConfigs)
order == SubSeq(TabNames, 1, NumTabs)

Positions == 0 .. (Len(order) - 1)

At(seq, i) == seq[i + 1]

\* A key and a route name that belong to no tab: what a child router that
\* does not carry the parent's key/routeName over puts in its result.
ForeignKey == "child-key"
ForeignName == "ChildRoute"
UnknownRoute == "Nowhere"
NoKey == "<no key>"
NoName == "<no routeName>"

\* NavigationActions constants and the deprecated spellings they replace.
INIT == "Navigation/INIT"
BACK == "Navigation/BACK"
NAVIGATE == "Navigation/NAVIGATE"
SET_PARAMS == "Navigation/SET_PARAMS"

\* The falsy values of the source (null, undefined) collapse to one.
Null == [isNull |-> TRUE]

\* An option the caller left out of config; a field an object does not have.
Undefined == "<undefined>"

\* Params objects are functions from param names to values; NoParams is the
\* undefined params of an object without that field. ForeignParams are the
\* params a child router keeps in the state it returns, ActionParams the
\* params a NAVIGATE action carries.
NoParams == [undefined |-> TRUE]
ForeignParams == [id |-> "route", tab |-> "route"]
ActionParams == [id |-> "action"]

VARIABLES
    routeConfigs,   \* lines 27, 41-45: routeName -> [router: does routeConfig.screen.router exist,
                    \*                                  path: routeConfig.path, NoPath when not a string]
    config,         \* line 28: [initialRouteName, backBehavior], each possibly Undefined
    state           \* the last non-null state returned to the caller, Null before the first dispatch

vars == <<routeConfigs, config, state>>

TabSet == {order[i] : i \in 1 .. Len(order)}

\* Array.prototype.indexOf: the first 0-based position of x, -1 when absent.
IndexOf(seq, x) ==
    IF \E i \in 1 .. Len(seq) : seq[i] = x
    THEN (CHOOSE i \in 1 .. Len(seq) : seq[i] = x /\ \A j \in 1 .. (i - 1) : seq[j] # x) - 1
    ELSE -1

\* lines 39-47: routeName -> does the tab own a child router.
tabRouters == [routeName \in TabSet |-> routeConfigs[routeName].router]

\* line 35
initialRouteName ==
    IF config.initialRouteName = Undefined THEN order[1] ELSE config.initialRouteName

\* line 37
backBehavior ==
    IF config.backBehavior = Undefined THEN "initialRoute" ELSE config.backBehavior

\* line 36
initialRouteIndex == IndexOf(order, initialRouteName)

shouldBackNavigateToInitialRoute_Inverted == backBehavior # "initialRoute"

\* line 38
shouldBackNavigateToInitialRoute == backBehavior = "initialRoute"

\* NavigationActions.mapDeprecatedActionAndWarn: a deprecated action type is
\* replaced by its canonical type, every other field is kept.
mapDeprecatedActionAndWarn(action) ==
    [action EXCEPT !.type =
        CASE action.type = "Init" -> INIT
          [] action.type = "Back" -> BACK
          [] action.type = "Navigate" -> NAVIGATE
          [] OTHER -> action.type]

\* What a tab's child router may answer when handed an action and a route:
\* a falsy value, the very route it was given, a new object that carries the
\* given route's key and routeName over ({...state, ...}), or a new object
\* that does not. A fifth answer, "withParams", is a new object of the last
\* kind that has params; the dispatcher reads no params, so it is drawn only
\* where the path codec is applied.
Responses == {"falsy", "same", "new", "foreign"}

\* tabRouter.getStateForAction(action, childState), as decided by `response'.
\* Called without a state (childState = Null) the child has no route to hand
\* back or to carry fields over from.
ChildGetStateForAction(response, childState) ==
    CASE response = "falsy" -> Null
      [] response = "same" -> childState
      [] response = "new" ->
            IF childState = Null
            THEN [key |-> NoKey, routeName |-> NoName, params |-> NoParams, ref |-> "child"]
            ELSE [childState EXCEPT !.ref = "child"]
      [] response = "foreign" -> [key |-> ForeignKey, routeName |-> ForeignName,
                                  params |-> NoParams, ref |-> "child"]
      [] response = "withParams" -> [key |-> ForeignKey, routeName |-> ForeignName,
                                     params |-> ForeignParams, ref |-> "child"]

IsNavigator(i) == tabRouters[At(order, i)]

DefaultIndex_LastTab == Len(order) - 1

DefaultIndex == initialRouteIndex

\* lines 63-67 and 69-72: the default route of a tab, a fresh object. For a
\* navigator tab it is { ...answer, key: routeName, routeName }: the fields
\* of what the child router answered are kept, key and routeName overlaid;
\* spreading a falsy answer adds nothing.
DefaultRoute(routeName, answer) ==
    IF answer = Null
    THEN [key |-> routeName, routeName |-> routeName, params |-> NoParams, ref |-> "held"]
    ELSE [key |-> routeName, routeName |-> routeName, params |-> answer.params, ref |-> "held"]

\* line 64: what the child routers answer when asked without a state.
DefaultAnswers(resp) ==
    [i \in Positions |-> IF IsNavigator(i) THEN ChildGetStateForAction(resp[i], Null) ELSE Null]

\* lines 60-77: the default state; answers[i] is what the child router of
\* the navigator tab at position i answered.
DefaultState(answers) ==
    [ref |-> "default",
     index |-> DefaultIndex,
     routesRef |-> "default",
     routes |-> [i \in 1 .. Len(order) |->
                    DefaultRoute(order[i], IF IsNavigator(i - 1) THEN answers[i - 1] ELSE Null)]]

\* line 64: the child routers called while the default state is built.
DefaultCalls(inputState) ==
    IF inputState = Null
    THEN SelectSeq([i \in 1 .. Len(order) |-> [tab |-> i - 1, phase |-> "default"]],
                   LAMBDA c : IsNavigator(c.tab))
    ELSE <<>>

Splice_Last(routes, i, route) == [routes EXCEPT ![Len(routes)] = route]

Splice_First(routes, i, route) == [routes EXCEPT ![1] = route]

\* [...state.routes]; routes[i] = route
Splice(routes, i, route) == [routes EXCEPT ![i + 1] = route]

ActiveTabRejects_NonNull(activeTabState, inputState) ==
    activeTabState # Null /\ inputState # Null

ActiveTabRejects_WithoutInput(activeTabState, inputState) ==
    activeTabState = Null /\ inputState = Null

\* lines 86-88: a falsy answer of the active tab rejects the action, but
\* only when the caller supplied a state.
ActiveTabRejects(activeTabState, inputState) ==
    activeTabState = Null /\ inputState # Null

\* lines 81-97: let the current tab handle it.
ActiveTab(st, inputState, resp) ==
    LET activeTabLastState == At(st.routes, st.index)
        activeTabRouter == IsNavigator(st.index)
        activeTabState == ChildGetStateForAction(resp[st.index], activeTabLastState)
    IN  IF ~activeTabRouter
        THEN [returned |-> FALSE, ret |-> Null, calls |-> <<>>]
        ELSE IF ActiveTabRejects(activeTabState, inputState)
        THEN [returned |-> TRUE, ret |-> Null,
              calls |-> <<[tab |-> st.index, phase |-> "active"]>>]
        ELSE IF activeTabState # Null /\ activeTabState # activeTabLastState
        THEN [returned |-> TRUE,
              ret |-> [st EXCEPT !.ref = "copy", !.routesRef = "copy",
                                 !.routes = Splice(st.routes, st.index, activeTabState)],
              calls |-> <<[tab |-> st.index, phase |-> "active"]>>]
        ELSE [returned |-> FALSE, ret |-> Null,
              calls |-> <<[tab |-> st.index, phase |-> "active"]>>]

isBackEligible_OtherKey(action, activeTabLastState) ==
    action.key = NoKey \/ action.key # activeTabLastState.key

\* line 102
isBackEligible(action, activeTabLastState) ==
    action.key = NoKey \/ action.key = activeTabLastState.key

\* lines 101-105: the candidate index after the BACK rule.
BackTarget(action, st) ==
    IF /\ action.type = BACK
       /\ isBackEligible(action, At(st.routes, st.index))
       /\ shouldBackNavigateToInitialRoute
    THEN initialRouteIndex
    ELSE st.index

\* lines 109-115: order.find sets activeTabIndex to the position of the tab
\* named by the action; -1 stands for "not found".
FindTab_FirstTab(routeName) == IF routeName \in TabSet THEN 0 ELSE -1

FindTab_OneBased(routeName) == IndexOf(order, routeName) + 1

FindTab(routeName) == IndexOf(order, routeName)

Navigate_StoresParams(action, st, resp) ==
    LET found == IF action.type = NAVIGATE THEN FindTab(action.routeName) ELSE -1
        didNavigate == found # -1
        activeTabIndex == IF didNavigate THEN found ELSE BackTarget(action, st)
        asked == didNavigate /\ action.action
        tabRouter == asked /\ IsNavigator(activeTabIndex)
        newChildState == IF tabRouter
                         THEN ChildGetStateForAction(resp[activeTabIndex],
                                                     At(st.routes, activeTabIndex))
                         ELSE IF didNavigate /\ action.params # NoParams
                         THEN [At(st.routes, activeTabIndex) EXCEPT !.params = action.params,
                                                                    !.ref = "child"]
                         ELSE Null
        calls == IF tabRouter THEN <<[tab |-> activeTabIndex, phase |-> "navigate"]>> ELSE <<>>
    IN  IF newChildState # Null /\ newChildState # At(st.routes, activeTabIndex)
        THEN [returned |-> TRUE,
              ret |-> [st EXCEPT !.ref = "copy", !.routesRef = "copy", !.index = activeTabIndex,
                                 !.routes = Splice(st.routes, activeTabIndex, newChildState)],
              activeTabIndex |-> activeTabIndex, didNavigate |-> didNavigate, calls |-> calls]
        ELSE [returned |-> FALSE, ret |-> Null,
              activeTabIndex |-> activeTabIndex, didNavigate |-> didNavigate, calls |-> calls]

\* lines 106-128: NAVIGATE resolution.
Navigate(action, st, resp) ==
    LET found == IF action.type = NAVIGATE THEN FindTab(action.routeName) ELSE -1
        didNavigate == found # -1
        activeTabIndex == IF didNavigate THEN found ELSE BackTarget(action, st)
        asked == didNavigate /\ action.action
        tabRouter == asked /\ IsNavigator(activeTabIndex)
        newChildState == IF tabRouter
                         THEN ChildGetStateForAction(resp[activeTabIndex],
                                                     At(st.routes, activeTabIndex))
                         ELSE Null
        calls == IF tabRouter THEN <<[tab |-> activeTabIndex, phase |-> "navigate"]>> ELSE <<>>
    IN  IF tabRouter /\ newChildState # Null /\ newChildState # At(st.routes, activeTabIndex)
        THEN [returned |-> TRUE,
              ret |-> [st EXCEPT !.ref = "copy", !.routesRef = "copy", !.index = activeTabIndex,
                                 !.routes = Splice(st.routes, activeTabIndex, newChildState)],
              activeTabIndex |-> activeTabIndex, didNavigate |-> didNavigate, calls |-> calls]
        ELSE [returned |-> FALSE, ret |-> Null,
              activeTabIndex |-> activeTabIndex, didNavigate |-> didNavigate, calls |-> calls]

NavigateNoOp_AlwaysNull(st, inputState) == Null

NavigateNoOp_ReturnsState(st, inputState) == st

\* lines 137-141: NAVIGATE to the tab that is already active.
NavigateNoOp(st, inputState) ==
    IF inputState = Null THEN st ELSE Null

TabSwitch_CopiesRoutes(st, inputState, activeTabIndex, didNavigate) ==
    IF activeTabIndex # st.index
    THEN [returned |-> TRUE,
          ret |-> [st EXCEPT !.ref = "copy", !.routesRef = "copy", !.index = activeTabIndex]]
    ELSE IF didNavigate
    THEN [returned |-> TRUE, ret |-> NavigateNoOp(st, inputState)]
    ELSE [returned |-> FALSE, ret |-> Null]

\* lines 131-141: the tab switch and the navigate no-op.
TabSwitch(st, inputState, activeTabIndex, didNavigate) ==
    IF activeTabIndex # st.index
    THEN [returned |-> TRUE, ret |-> [st EXCEPT !.ref = "copy", !.index = activeTabIndex]]
    ELSE IF didNavigate
    THEN [returned |-> TRUE, ret |-> NavigateNoOp(st, inputState)]
    ELSE [returned |-> FALSE, ret |-> Null]

\* lines 151-155: what the scan holds for tab i after asking its router.
OtherTabState(st, resp, i) ==
    IF IsNavigator(i)
    THEN ChildGetStateForAction(resp[i], At(st.routes, i))
    ELSE At(st.routes, i)

OtherTabStops_NotOnFalsy(st, resp, i) ==
    /\ i # st.index
    /\ OtherTabState(st, resp, i) # Null
    /\ OtherTabState(st, resp, i) # At(st.routes, i)

\* lines 148-166: does the scan stop at tab i.
OtherTabStops(st, resp, i) ==
    /\ i # st.index
    /\ \/ OtherTabState(st, resp, i) = Null
       \/ OtherTabState(st, resp, i) # At(st.routes, i)

FirstStop_Last(st, resp) ==
    IF \E i \in Positions : OtherTabStops(st, resp, i)
    THEN CHOOSE i \in Positions :
            /\ OtherTabStops(st, resp, i)
            /\ \A j \in (i + 1) .. (Len(order) - 1) : ~OtherTabStops(st, resp, j)
    ELSE -1

\* line 146: order.find stops at the first position whose callback returns
\* true; -1 when none does.
FirstStop(st, resp) ==
    IF \E i \in Positions : OtherTabStops(st, resp, i)
    THEN CHOOSE i \in Positions :
            /\ OtherTabStops(st, resp, i)
            /\ \A j \in 0 .. (i - 1) : ~OtherTabStops(st, resp, j)
    ELSE -1

StableResult_AlwaysCopies(st, index, routes, routesRef) ==
    [st EXCEPT !.ref = "copy", !.index = index, !.routes = routes, !.routesRef = routesRef]

\* lines 170-177: a new object only when index or routes changed.
StableResult(st, index, routes, routesRef) ==
    IF index # st.index \/ routesRef # st.routesRef
    THEN [st EXCEPT !.ref = "copy", !.index = index, !.routes = routes, !.routesRef = routesRef]
    ELSE st

\* lines 143-177: let other tabs handle it.
OtherTabs(st, resp) ==
    LET stop == FirstStop(st, resp)
        last == IF stop = -1 THEN Len(order) - 1 ELSE stop
        tabState == OtherTabState(st, resp, stop)
        replaced == stop # -1 /\ tabState # Null
        calls == SelectSeq([i \in 1 .. (last + 1) |-> [tab |-> i - 1, phase |-> "other"]],
                           LAMBDA c : c.tab # st.index /\ IsNavigator(c.tab))
    IN  [ret |-> StableResult(st,
                              IF stop = -1 THEN st.index ELSE stop,
                              IF replaced THEN Splice(st.routes, stop, tabState) ELSE st.routes,
                              IF replaced THEN "copy" ELSE st.routesRef),
         calls |-> calls]

\* lines 54-178. ret is the value returned, calls the child routers asked,
\* in the order they were asked.
GetStateForAction(rawAction, inputState, resp) ==
    LET action == mapDeprecatedActionAndWarn(rawAction)
        st == IF inputState = Null THEN DefaultState(DefaultAnswers(resp)) ELSE inputState
        c0 == DefaultCalls(inputState)
        active == ActiveTab(st, inputState, resp)
        nav == Navigate(action, st, resp)
        switch == TabSwitch(st, inputState, nav.activeTabIndex, nav.didNavigate)
        others == OtherTabs(st, resp)
    IN  IF active.returned
        THEN [ret |-> active.ret, calls |-> c0 \o active.calls]
        ELSE IF nav.returned
        THEN [ret |-> nav.ret, calls |-> c0 \o active.calls \o nav.calls]
        ELSE IF switch.returned
        THEN [ret |-> switch.ret, calls |-> c0 \o active.calls \o nav.calls]
        ELSE [ret |-> others.ret, calls |-> c0 \o active.calls \o nav.calls \o others.calls]

\* lines 180-192: the component of the active tab, or the invariant's error.
GetComponentForState(s) ==
    IF s.index \in Positions
    THEN [routeName |-> At(order, s.index),
          from |-> IF IsNavigator(s.index) THEN "childRouter" ELSE "screen"]
    ELSE [error |-> "There is no route defined for index"]

(***************************************************************************)
(* The path codec. A string is the sequence of its symbols; "/" is the     *)
(* separator and every other symbol stands for a piece of text without     *)
(* a "/" in it.                                                            *)
(***************************************************************************)
Slash == "/"

\* routeConfig.path when it is not a string.
NoPath == <<Undefined>>

\* The paths a route config may give a tab: none, "", "p", "p/q".
PathOptions == {NoPath, <<>>, <<"p">>, <<"p", Slash, "q">>}

\* lines 40-42: paths[routeName]
paths(routeName) ==
    IF routeConfigs[routeName].path # NoPath
    THEN routeConfigs[routeName].path
    ELSE <<routeName>>

\* String.prototype.split('/'): the pieces between the separators; a string
\* without separator, the empty one included, is its own single piece.
RECURSIVE Split(_)
Split(str) ==
    IF \E n \in 1 .. Len(str) : str[n] = Slash
    THEN LET n == CHOOSE m \in 1 .. Len(str) :
                    str[m] = Slash /\ \A l \in 1 .. (m - 1) : str[l] # Slash
         IN  <<SubSeq(str, 1, n - 1)>> \o Split(SubSeq(str, n + 1, Len(str)))
    ELSE <<str>>

\* Array.prototype.join('/')
RECURSIVE Join(_)
Join(parts) ==
    IF parts = <<>> THEN <<>>
    ELSE IF Len(parts) = 1 THEN parts[1]
    ELSE parts[1] \o <<Slash>> \o Join(Tail(parts))

\* { ...params, ...childParams }: the keys of both, the child's value where
\* both have the key; spreading undefined adds nothing.
Merge_RouteWins(params, childParams) ==
    LET own == IF params = NoParams THEN <<>> ELSE params
    IN  [k \in DOMAIN own \cup DOMAIN childParams |->
            IF k \in DOMAIN own THEN own[k] ELSE childParams[k]]

Merge(params, childParams) ==
    LET own == IF params = NoParams THEN <<>> ELSE params
    IN  [k \in DOMAIN own \cup DOMAIN childParams |->
            IF k \in DOMAIN childParams THEN childParams[k] ELSE own[k]]

\* line 209: `${subPath}/${child.path}` when subPath is not empty
ChildPath(subPath, childPath) ==
    IF subPath # <<>> THEN subPath \o <<Slash>> \o childPath ELSE childPath

\* lines 198-216. `child' is what screen.router.getPathAndParamsForState(route)
\* returns for the active route: [path, params].
GetPathAndParamsForState_RouteName(s, child) ==
    LET route == At(s.routes, s.index)
        routeName == At(order, s.index)
    IN  IF IsNavigator(s.index)
        THEN [path |-> ChildPath(<<routeName>>, child.path),
              params |-> IF child.params # NoParams
                         THEN Merge(route.params, child.params)
                         ELSE route.params]
        ELSE [path |-> <<routeName>>, params |-> route.params]

GetPathAndParamsForState(s, child) ==
    LET route == At(s.routes, s.index)
        routeName == At(order, s.index)
        subPath == paths(routeName)
    IN  IF IsNavigator(s.index)
        THEN [path |-> ChildPath(subPath, child.path),
              params |-> IF child.params # NoParams
                         THEN Merge(route.params, child.params)
                         ELSE route.params]
        ELSE [path |-> subPath, params |-> route.params]

\* line 227: the piece of the path a tab's path is compared with.
PathToTest_WholePath(path) == path

PathToTest(path) == Split(path)[1]

\* The nested action of an action object that has none.
NoNestedAction == [undefined |-> TRUE]

\* What the child router of tab i decodes a path to, when it decodes it: an
\* action of its own, which tells the tab and the path it was made for.
ChildAction(i, path) ==
    [type |-> NAVIGATE, routeName |-> ForeignName, action |-> NoNestedAction,
     params |-> [decodedBy |-> At(order, i), path |-> path]]

\* tabRouter.getActionForPathAndParams(path, ..), as decided by `answer'.
ChildGetActionForPathAndParams(answer, i, path) ==
    IF answer = "action" THEN ChildAction(i, path) ELSE Null

\* lines 228-237: the action built for a tab whose path matches.
\* NavigationActions.navigate({routeName}) is {type: NAVIGATE, routeName}.
TabAction(i, path, params, decode) ==
    [type |-> NAVIGATE,
     routeName |-> At(order, i),
     action |-> IF IsNavigator(i)
                THEN ChildGetActionForPathAndParams(decode[i], i, Join(Tail(Split(path))))
                ELSE NoNestedAction,
     params |-> IF ~IsNavigator(i) /\ params # NoParams THEN params ELSE NoParams]

\* Array.prototype.find over the positions of order where map() left a
\* truthy entry: the first of them, -1 when there is none.
FirstPosition(truthy) ==
    IF truthy # {}
    THEN CHOOSE i \in truthy : \A j \in 0 .. (i - 1) : j \notin truthy
    ELSE -1

\* lines 223-243. decode[i] is what the child router of tab i answers.
GetActionForPathAndParams(path, params, decode) ==
    LET byTab == FirstPosition({i \in Positions : PathToTest(path) = paths(At(order, i))})
        byChild == FirstPosition({i \in Positions :
                        /\ IsNavigator(i)
                        /\ ChildGetActionForPathAndParams(decode[i], i, path) # Null})
    IN  IF byTab # -1 THEN TabAction(byTab, path, params, decode)
        ELSE IF byChild # -1
             THEN ChildGetActionForPathAndParams(decode[byChild], byChild, path)
        ELSE Null

\* The caller keeps the state it was returned and passes that object in with
\* the next action: what was returned is now "the input", and its routes are
\* the routes it holds.
AsInput(s) ==
    [ref |-> "input",
     index |-> s.index,
     routesRef |-> "input",
     routes |-> [i \in 1 .. Len(s.routes) |-> [s.routes[i] EXCEPT !.ref = "held"]]]

\* The keys an action may carry.
Keys == {NoKey, ForeignKey} \cup TabSet

\* The route names a NAVIGATE action may carry.
RouteNames == {UnknownRoute} \cup TabSet

Action(type, key, routeName, nested) ==
    [type |-> type, key |-> key, routeName |-> routeName, action |-> nested,
     params |-> NoParams]

\* {type: NAVIGATE, routeName, params}
NavigateWithParams(routeName) ==
    [Action(NAVIGATE, NoKey, routeName, FALSE) EXCEPT !.params = ActionParams]

\* The actions dispatched: action.action is modelled by whether it is present.
Actions ==
    {Action(t, NoKey, NoName, n) : t \in {INIT, SET_PARAMS}, n \in BOOLEAN}
    \cup {Action(BACK, k, NoName, FALSE) : k \in Keys}
    \cup {Action(BACK, NoKey, NoName, TRUE)}
    \cup {Action(NAVIGATE, NoKey, r, n) : r \in RouteNames, n \in BOOLEAN}
    \cup {Action("Init", NoKey, NoName, FALSE), Action("Back", NoKey, NoName, FALSE)}
    \cup {Action("Navigate", NoKey, order[Len(order)], FALSE)}
    \cup {NavigateWithParams(r) : r \in TabSet}

\* One answer per tab and dispatch; a leaf tab has no router to answer.
NavigatorPositions == {i \in Positions : IsNavigator(i)}

RespSet ==
    {[i \in Positions |-> IF i \in NavigatorPositions THEN answers[i] ELSE "same"] :
        answers \in [NavigatorPositions -> Responses]}

\* line 28: config is spelled out, or left out altogether (config = {}).
Configs ==
    [initialRouteName : TabSet, backBehavior : {"initialRoute", "none"}]
    \cup {[initialRouteName |-> Undefined, backBehavior |-> Undefined]}

\* Which tabs own a child router.
RouterMaps ==
    {rm \in [TabSet -> BOOLEAN] :
        Cardinality({routeName \in TabSet : rm[routeName]}) <= MaxNavigators}

\* Route configs that leave every path out: the dispatcher reads no path.
RouteConfigMaps ==
    {[routeName \in TabSet |-> [router |-> rm[routeName], path |-> NoPath]] : rm \in RouterMaps}

\* Route configs for the path codec: every tab with or without a path.
CodecRouteConfigMaps ==
    {[routeName \in TabSet |-> [router |-> rm[routeName], path |-> pm[routeName]]] :
        rm \in RouterMaps, pm \in [TabSet -> PathOptions]}

Init ==
    /\ routeConfigs \in RouteConfigMaps
    /\ config \in Configs
    /\ state = Null

\* One call of getStateForAction by a caller that keeps the last non-null
\* state it was returned.
Dispatch ==
    /\ \E resp \in RespSet, action \in Actions :
            LET result == GetStateForAction(action, state, resp).ret
            IN  state' = IF result = Null THEN state ELSE AsInput(result)
    /\ UNCHANGED <<routeConfigs, config>>

Next == Dispatch

Spec == Init /\ [][Next]_vars

(***************************************************************************)
(* The path codec is applied to the states a caller holds: a router with   *)
(* any paths, the default config, and NAVIGATE actions that walk it        *)
(* through its tabs while the child routers keep or replace their route.   *)
(***************************************************************************)
CodecResponses == {"same", "withParams"}

CodecRespSet ==
    {[i \in Positions |-> IF i \in NavigatorPositions THEN answers[i] ELSE "same"] :
        answers \in [NavigatorPositions -> CodecResponses]}

InitCodec ==
    /\ routeConfigs \in CodecRouteConfigMaps
    /\ config = [initialRouteName |-> Undefined, backBehavior |-> Undefined]
    /\ state = Null

NavigateDispatch ==
    /\ \E resp \in CodecRespSet, routeName \in TabSet :
            LET result == GetStateForAction(Action(NAVIGATE, NoKey, routeName, FALSE),
                                            state, resp).ret
            IN  state' = IF result = Null THEN state ELSE AsInput(result)
    /\ UNCHANGED <<routeConfigs, config>>

NextCodec == NavigateDispatch

SpecCodec == InitCodec /\ [][NextCodec]_vars

\* What a child router's getPathAndParamsForState may return.
ChildPaths == {<<>>, <<"c">>, <<"c", Slash, "d">>}

ChildParams == {NoParams, [id |-> "child"]}

EncodeAnswers == [path : ChildPaths, params : ChildParams]

\* What the child routers' getActionForPathAndParams may return, per tab.
DecodeSet ==
    {[i \in Positions |-> IF i \in NavigatorPositions THEN answers[i] ELSE "null"] :
        answers \in [NavigatorPositions -> {"null", "action"}]}

\* The paths given to getActionForPathAndParams.
DecodeInputs ==
    {<<>>, <<"p">>, <<"p", Slash, "q">>, <<"p", Slash, "c">>, <<"c">>,
     <<"c", Slash, "d">>, <<Slash, "p">>}
    \cup {<<routeName>> : routeName \in TabSet}
    \cup {<<routeName, Slash, "c">> : routeName \in TabSet}

TypeOK ==
    /\ routeConfigs \in CodecRouteConfigMaps
    /\ config \in Configs
    /\ initialRouteName \in TabSet
    /\ backBehavior \in {"initialRoute", "none"}
    /\ state = Null \/ state.ref = "input"

(***************************************************************************)
(* Vocabulary of the claims.                                               *)
(***************************************************************************)
InitAction == Action(INIT, NoKey, NoName, FALSE)

\* The child router of tab i answers with a route object other than the one
\* it was given.
AnswersNewRoute(resp, i) == IsNavigator(i) /\ resp[i] \in {"new", "foreign"}

\* The child router of tab i answers with anything but the route it was given.
Reacts(resp, i) == IsNavigator(i) /\ resp[i] # "same"

\* The state in hand is one a dispatch returned.
HasState == state # Null

\* C1 (as stated): for every valid configuration, whatever the child routers
\* return, getStateForAction({type: INIT}) with no input state returns a state
\* whose index is initialRouteIndex.
C1_InitIndexWhateverChildrenReturn ==
    \A resp \in RespSet :
        LET r == GetStateForAction(InitAction, Null, resp).ret
        IN  r # Null /\ r.index = initialRouteIndex

\* C1 (amended): getStateForAction({type: INIT}) with no input state returns a
\* state, and its index is initialRouteIndex exactly when the initial tab's
\* child router answers with a new route or no inactive navigator tab's child
\* router answers INIT with a falsy value or a route other than the one it
\* was given.
C1_InitIndex ==
    \A resp \in RespSet :
        LET r == GetStateForAction(InitAction, Null, resp).ret
        IN  /\ r # Null
            /\ r.index = initialRouteIndex
                <=> \/ AnswersNewRoute(resp, initialRouteIndex)
                    \/ \A i \in Positions \ {initialRouteIndex} : ~Reacts(resp, i)

\* C1 witness: the state in hand is the one INIT built from no input state,
\* for a router whose initial tab is not the first one and owns a child
\* router that answered with a new route while an inactive tab's child
\* router reacted too.
C1_Witness ==
    /\ HasState
    /\ initialRouteIndex # 0
    /\ \E resp \in RespSet :
            /\ AnswersNewRoute(resp, initialRouteIndex)
            /\ \E i \in Positions \ {initialRouteIndex} : Reacts(resp, i)
            /\ state = AsInput(GetStateForAction(InitAction, Null, resp).ret)
            /\ state.index = initialRouteIndex

\* C2: in every state returned along a sequence of dispatches that starts
\* with no input state, routes.length equals order.length and
\* routes[i].routeName equals order[i] at every position, also where the
\* route was replaced by one a child router returned.
C2_RoutesMatchOrder ==
    HasState =>
        /\ Len(state.routes) = Len(order)
        /\ \A i \in 1 .. Len(order) : state.routes[i].routeName = order[i]

\* C3: in every state returned along a sequence of dispatches that starts
\* with no input state, 0 <= index < routes.length, and getComponentForState
\* of that state does not raise its "no route defined for index" error.
C3_IndexInRange ==
    HasState =>
        /\ 0 <= state.index
        /\ state.index < Len(state.routes)
        /\ "error" \notin DOMAIN GetComponentForState(state)

\* C3 witness: a returned state whose index is the last position and is not
\* the initial one, so the index was moved there by a dispatch.
C3_Witness ==
    /\ HasState
    /\ state.index = Len(state.routes) - 1
    /\ state.index # initialRouteIndex
    /\ "routeName" \in DOMAIN GetComponentForState(state)

\* Every child router answers with the route it was given.
AllSame == [i \in Positions |-> "same"]

\* The key of the route of the active tab of the state in hand.
ActiveKey == At(state.routes, state.index).key

\* A BACK action that carries no key or the active route's key.
EligibleBack(action) ==
    /\ mapDeprecatedActionAndWarn(action).type = BACK
    /\ action.key = NoKey \/ action.key = ActiveKey

\* C4: given an existing state and an action that is neither NAVIGATE nor a
\* back-eligible BACK, with every tab a leaf or its child router returning
\* the very route it was given, getStateForAction returns the input state
\* object itself: not a copy, not null.
C4_UnrelatedActionReturnsInput ==
    HasState =>
        \A action \in Actions :
            (/\ mapDeprecatedActionAndWarn(action).type # NAVIGATE
             /\ ~EligibleBack(action))
            => /\ GetStateForAction(action, state, AllSame).ret = state
               /\ GetStateForAction(action, state, AllSame).ret.ref = "input"

\* C4 witness: a state whose active tab owns a child router and is not the
\* initial tab, which a BACK carrying another route's key hands back as is.
C4_Witness ==
    /\ HasState
    /\ IsNavigator(state.index)
    /\ state.index # initialRouteIndex
    /\ \E k \in Keys \ {NoKey, ActiveKey} :
            GetStateForAction(Action(BACK, k, NoName, FALSE), state, AllSame).ret = state

UnrecognizedActions == {Action(SET_PARAMS, NoKey, NoName, n) : n \in BOOLEAN}

\* C5 (as stated): with an existing input state, an action of an
\* unrecognized type that no tab handles makes getStateForAction return null.
C5_UnhandledReturnsNull ==
    HasState =>
        \A action \in UnrecognizedActions :
            GetStateForAction(action, state, AllSame).ret = Null

\* C5 (amended): with an existing input state and an action of an
\* unrecognized type, getStateForAction returns the input state object itself
\* when every child router returns the route it was given, and returns null
\* exactly when the active tab's child router returns a falsy result.
C5_UnhandledReturnsInput ==
    HasState =>
        \A action \in UnrecognizedActions :
            /\ GetStateForAction(action, state, AllSame).ret = state
            /\ \A resp \in RespSet :
                    GetStateForAction(action, state, resp).ret = Null
                    <=> (IsNavigator(state.index) /\ resp[state.index] = "falsy")

\* C5 witness: a state with a navigator tab active and another navigator tab
\* inactive, for which an unrecognized action is answered with null when the
\* active child router returns a falsy result and with the input state when
\* every child router returns its route.
C5_Witness ==
    /\ HasState
    /\ IsNavigator(state.index)
    /\ \E i \in Positions \ {state.index} : IsNavigator(i)
    /\ \E resp \in RespSet :
            /\ resp[state.index] = "falsy"
            /\ GetStateForAction(Action(SET_PARAMS, NoKey, NoName, FALSE), state, resp).ret = Null
    /\ GetStateForAction(Action(SET_PARAMS, NoKey, NoName, FALSE), state, AllSame).ret = state

\* The plain tab switch to position t: a new state object, index t, the
\* routes array of the input.
IsTabSwitchTo(r, t) ==
    /\ r # Null
    /\ r.ref = "copy"
    /\ r.index = t
    /\ r.routesRef = "input"
    /\ r.routes = state.routes

NavigateTo(t) == Action(NAVIGATE, NoKey, At(order, t), FALSE)

\* C6 (as stated): for every valid input state and every leaf tab T that is
\* not active, whether the active tab is a leaf or a navigator,
\* NAVIGATE to T returns a new state whose index is T's position and whose
\* routes is the input's routes array.
C6_NavigateLeafSwitchesAnyActive ==
    HasState =>
        \A t \in Positions \ {state.index} :
            ~IsNavigator(t) =>
                \A resp \in RespSet :
                    IsTabSwitchTo(GetStateForAction(NavigateTo(t), state, resp).ret, t)

\* C6 (amended): for every valid input state and every leaf tab T that is
\* not active, NAVIGATE to T returns a new state whose index is T's position
\* and whose routes is the input's routes array, provided the active tab is
\* a leaf or its child router returns the route it was given.
C6_NavigateLeafSwitches ==
    HasState =>
        \A t \in Positions \ {state.index} :
            ~IsNavigator(t) =>
                \A resp \in RespSet :
                    ~Reacts(resp, state.index) =>
                        IsTabSwitchTo(GetStateForAction(NavigateTo(t), state, resp).ret, t)

\* C6 witness: a state with a navigator tab active from which NAVIGATE to an
\* inactive leaf tab switches to it while another child router reacts.
C6_Witness ==
    /\ HasState
    /\ IsNavigator(state.index)
    /\ \E t \in Positions \ {state.index} :
            /\ ~IsNavigator(t)
            /\ \E resp \in RespSet :
                    /\ ~Reacts(resp, state.index)
                    /\ \E i \in Positions : Reacts(resp, i)
                    /\ IsTabSwitchTo(GetStateForAction(NavigateTo(t), state, resp).ret, t)

\* C7 (as stated): for every valid input state, NAVIGATE to the tab that is
\* already active, with no nested action, returns null.
C7_NavigateActiveReturnsNull ==
    HasState =>
        \A resp \in RespSet :
            GetStateForAction(NavigateTo(state.index), state, resp).ret = Null

\* C7 (amended): for every valid input state, NAVIGATE to the tab that is
\* already active, with no nested action, returns null unless the active
\* tab's child router returns a route other than the one it was given; in
\* that case the result is a new state with the same index and that route at
\* the active position.
C7_NavigateActive ==
    HasState =>
        \A resp \in RespSet :
            LET r == GetStateForAction(NavigateTo(state.index), state, resp).ret
            IN  IF AnswersNewRoute(resp, state.index)
                THEN /\ r # Null
                     /\ r.index = state.index
                     /\ At(r.routes, state.index).ref = "child"
                     /\ \A j \in Positions \ {state.index} :
                            At(r.routes, j) = At(state.routes, j)
                ELSE r = Null

\* C7 witness: a state, not the initial tab's, for which NAVIGATE to the
\* active tab returns null both for a leaf-like answer and for a falsy one.
C7_Witness ==
    /\ HasState
    /\ IsNavigator(state.index)
    /\ state.index # initialRouteIndex
    /\ \E resp \in RespSet :
            /\ resp[state.index] = "falsy"
            /\ GetStateForAction(NavigateTo(state.index), state, resp).ret = Null
    /\ GetStateForAction(NavigateTo(state.index), state, AllSame).ret = Null

AllLeaves == \A i \in Positions : ~IsNavigator(i)

\* C8: for a router of leaf tabs and a valid state whose index is not
\* initialRouteIndex, a BACK that carries no key or the active route's key
\* moves index to initialRouteIndex, routes unchanged, if and only if
\* backBehavior is "initialRoute" (the default); with backBehavior "none" the
\* input state is returned unchanged.
C8_BackToInitialRoute ==
    (HasState /\ AllLeaves /\ state.index # initialRouteIndex) =>
        \A k \in {NoKey, ActiveKey} :
            LET r == GetStateForAction(Action(BACK, k, NoName, FALSE), state, AllSame).ret
            IN  /\ r # Null
                /\ r.index = initialRouteIndex
                    <=> (config.backBehavior \in {"initialRoute", Undefined})
                /\ config.backBehavior \in {"initialRoute", Undefined}
                    => IsTabSwitchTo(r, initialRouteIndex)
                /\ config.backBehavior = "none" => (r = state /\ r.ref = "input")

\* C8 witness: a router of leaf tabs, a state away from the initial tab, and
\* a BACK with the active route's key that leads back to the initial tab.
C8_Witness ==
    /\ HasState
    /\ AllLeaves
    /\ state.index # initialRouteIndex
    /\ initialRouteIndex # 0
    /\ GetStateForAction(Action(BACK, ActiveKey, NoName, FALSE), state, AllSame).ret.index
           = initialRouteIndex

IneligibleKeys == Keys \ {NoKey, ActiveKey}

\* C9 (as stated): for every valid input state, a BACK whose key is present
\* and differs from the active route's key leaves index unchanged in any
\* state returned.
C9_IneligibleBackKeepsIndex ==
    HasState =>
        \A k \in IneligibleKeys, resp \in RespSet :
            LET r == GetStateForAction(Action(BACK, k, NoName, FALSE), state, resp).ret
            IN  r # Null => r.index = state.index

\* C9 (amended): for every valid input state, a BACK whose key is present and
\* differs from the active route's key leaves index unchanged in any state
\* returned, unless the active tab did not handle the action and an inactive
\* navigator tab's child router answers it with a falsy value or a route
\* other than the one it was given; index then becomes the position of the
\* first such tab.
C9_IneligibleBack ==
    HasState =>
        \A k \in IneligibleKeys, resp \in RespSet :
            LET r == GetStateForAction(Action(BACK, k, NoName, FALSE), state, resp).ret
                reacting == {i \in Positions \ {state.index} : Reacts(resp, i)}
            IN  r # Null =>
                    IF AnswersNewRoute(resp, state.index) \/ reacting = {}
                    THEN r.index = state.index
                    ELSE r.index \in reacting /\ \A i \in reacting : r.index <= i

\* C9 witness: a state away from the initial tab, under the "initialRoute"
\* back behaviour, that a BACK with another key returns unchanged.
C9_Witness ==
    /\ HasState
    /\ state.index # initialRouteIndex
    /\ shouldBackNavigateToInitialRoute
    /\ \E i \in Positions : IsNavigator(i)
    /\ \E k \in IneligibleKeys :
            GetStateForAction(Action(BACK, k, NoName, FALSE), state, AllSame).ret = state

\* The state the dispatcher works on: the input, or the default state.
Working(resp) == IF state = Null THEN DefaultState(DefaultAnswers(resp)) ELSE state

\* The dispatch of `action' with answers `resp' reaches the broadcast step:
\* the active tab did not handle (or reject) the action, no tab switch was
\* decided, and the action is not a NAVIGATE to a known tab.
ReachesBroadcast(action, resp) ==
    LET a == mapDeprecatedActionAndWarn(action)
        active == Working(resp).index
    IN  /\ ~AnswersNewRoute(resp, active)
        /\ ~(state # Null /\ IsNavigator(active) /\ resp[active] = "falsy")
        /\ ~(a.type = NAVIGATE /\ a.routeName \in TabSet)
        /\ ~(/\ a.type = BACK
              /\ (a.key = NoKey \/ a.key = At(Working(resp).routes, active).key)
              /\ backBehavior = "initialRoute"
              /\ initialRouteIndex # active)

\* The tabs asked in the broadcast step, in the order they were asked.
AskedInBroadcast(calls) ==
    LET others == SelectSeq(calls, LAMBDA c : c.phase = "other")
    IN  [n \in 1 .. Len(others) |-> others[n].tab]

\* The index of the state the dispatcher works on.
WorkingIndex == IF state = Null THEN initialRouteIndex ELSE state.index

\* The inactive navigator tabs up to position w, in tab order.
InactiveNavigatorsUpTo(w) ==
    LET ps == SelectSeq([n \in 1 .. (w + 1) |-> n - 1],
                        LAMBDA i : i # WorkingIndex /\ IsNavigator(i))
    IN  ps

Lowest(set) == CHOOSE i \in set : \A j \in set : i <= j

\* C10 (as stated): when a dispatch reaches the broadcast step, the new
\* active index is the lowest-position inactive tab whose child router
\* accepts the action (returns a differing route); that tab's route is
\* replaced by the route the child returned, every other route is left
\* identical, and the tabs after it are not consulted.
C10_BroadcastFirstAccepting ==
    \A resp \in RespSet, action \in Actions :
        LET accepting == {i \in Positions \ {Working(resp).index} : AnswersNewRoute(resp, i)}
            res == GetStateForAction(action, state, resp)
            w == Lowest(accepting)
        IN  (ReachesBroadcast(action, resp) /\ accepting # {}) =>
                /\ res.ret # Null
                /\ res.ret.index = w
                /\ At(res.ret.routes, w) = ChildGetStateForAction(resp[w], At(Working(resp).routes, w))
                /\ \A j \in Positions \ {w} : At(res.ret.routes, j) = At(Working(resp).routes, j)
                /\ AskedInBroadcast(res.calls) = InactiveNavigatorsUpTo(w)

\* C10 (amended): when a dispatch reaches the broadcast step, the inactive
\* tabs are tried in order and the new active index is the lowest-position
\* inactive tab whose child router returns a falsy value or a route other
\* than the one it was given; when it returned a route, that tab's route is
\* replaced by it, and when it returned a falsy value the routes array is
\* left as it was; every other route is left identical and the tabs after it
\* are not consulted. When no inactive tab reacts the state is returned as is.
C10_BroadcastFirstReacting ==
    \A resp \in RespSet, action \in Actions :
        LET reacting == {i \in Positions \ {Working(resp).index} : Reacts(resp, i)}
            res == GetStateForAction(action, state, resp)
            w == Lowest(reacting)
        IN  ReachesBroadcast(action, resp) =>
                IF reacting = {}
                THEN /\ res.ret = Working(resp)
                     /\ AskedInBroadcast(res.calls) = InactiveNavigatorsUpTo(Len(order) - 1)
                ELSE /\ res.ret # Null
                     /\ res.ret.ref = "copy"
                     /\ res.ret.index = w
                     /\ resp[w] # "falsy" =>
                            /\ At(res.ret.routes, w)
                                   = ChildGetStateForAction(resp[w], At(Working(resp).routes, w))
                            /\ At(res.ret.routes, w).ref = "child"
                            /\ res.ret.routesRef = "copy"
                     /\ resp[w] = "falsy" =>
                            /\ res.ret.routes = Working(resp).routes
                            /\ res.ret.routesRef = Working(resp).routesRef
                     /\ \A j \in Positions \ {w} : At(res.ret.routes, j) = At(Working(resp).routes, j)
                     /\ AskedInBroadcast(res.calls) = InactiveNavigatorsUpTo(w)

\* C10 witness: a returned state with a leaf tab active and two inactive
\* navigator tabs, from which a broadcast passes a declining tab and switches
\* to the next one, and another broadcast stops at the first of two reacting
\* tabs without asking the second.
C10_Witness ==
    /\ HasState
    /\ \E p, q \in NavigatorPositions \ {state.index} :
            /\ p < q
            /\ \E resp \in RespSet, action \in Actions :
                    LET res == GetStateForAction(action, state, resp)
                    IN  /\ ReachesBroadcast(action, resp)
                        /\ resp[p] = "same" /\ resp[q] = "new"
                        /\ res.ret.index = q
                        /\ AskedInBroadcast(res.calls) = <<p, q>>
            /\ \E resp \in RespSet, action \in Actions :
                    LET res == GetStateForAction(action, state, resp)
                    IN  /\ ReachesBroadcast(action, resp)
                        /\ resp[p] = "new" /\ resp[q] = "foreign"
                        /\ res.ret.index = p
                        /\ AskedInBroadcast(res.calls) = <<p>>

\* C12: every action dispatched with no input state returns a non-null
\* state, also when a child router returns a falsy result and when the action
\* is a NAVIGATE to the initial tab.
C12_NoInputNeverNull ==
    state = Null =>
        \A resp \in RespSet, action \in Actions :
            GetStateForAction(action, Null, resp).ret # Null

\* C12 witness: the state in hand was returned, from no input state, for a
\* NAVIGATE to the initial tab whose child router answered with a falsy
\* value.
C12_Witness ==
    /\ HasState
    /\ IsNavigator(initialRouteIndex)
    /\ \E resp \in RespSet :
            /\ resp[initialRouteIndex] = "falsy"
            /\ state = AsInput(GetStateForAction(NavigateTo(initialRouteIndex), Null, resp).ret)

ActiveCall(resp) == <<[tab |-> Working(resp).index, phase |-> "active"]>>

\* C14: given a caller-supplied state whose active tab owns a child router
\* that returns a falsy result, getStateForAction returns null for every
\* action type (an eligible BACK and a NAVIGATE naming another tab included),
\* and only the active tab's child router is asked: no tab switch, no
\* broadcast.
C14_ActiveFalsyRejects ==
    (HasState /\ IsNavigator(state.index)) =>
        \A resp \in RespSet, action \in Actions :
            resp[state.index] = "falsy" =>
                /\ GetStateForAction(action, state, resp).ret = Null
                /\ GetStateForAction(action, state, resp).calls = ActiveCall(resp)

\* C14 witness: a navigator tab other than the initial one is active, the
\* back behaviour is "initialRoute", another navigator tab would react, and
\* an eligible BACK and a NAVIGATE to another tab are both answered null.
C14_Witness ==
    /\ HasState
    /\ IsNavigator(state.index)
    /\ state.index # initialRouteIndex
    /\ shouldBackNavigateToInitialRoute
    /\ \E resp \in RespSet :
            /\ resp[state.index] = "falsy"
            /\ \E i \in Positions \ {state.index} : resp[i] = "new"
            /\ GetStateForAction(Action(BACK, NoKey, NoName, FALSE), state, resp).ret = Null
            /\ GetStateForAction(NavigateTo(initialRouteIndex), state, resp).ret = Null

\* The child routers asked by the dispatcher proper, the calls that build
\* the default state left out.
AskedAfterDefault(calls) == SelectSeq(calls, LAMBDA c : c.phase # "default")

\* C15: whenever the active tab's child router returns a route that is not
\* the active route object, getStateForAction returns a state with the index
\* it had and routes identical to the previous routes except at that index,
\* which holds the child's route; for every action type, and no other tab's
\* child router is asked.
C15_ActiveTabWins ==
    \A resp \in RespSet, action \in Actions :
        AnswersNewRoute(resp, Working(resp).index) =>
            LET res == GetStateForAction(action, state, resp)
            IN  /\ res.ret # Null
                /\ res.ret.index = Working(resp).index
                /\ At(res.ret.routes, Working(resp).index)
                       = ChildGetStateForAction(resp[Working(resp).index],
                                                At(Working(resp).routes, Working(resp).index))
                /\ At(res.ret.routes, Working(resp).index).ref = "child"
                /\ \A j \in Positions \ {Working(resp).index} :
                        At(res.ret.routes, j) = At(Working(resp).routes, j)
                /\ AskedAfterDefault(res.calls) = ActiveCall(resp)

\* C15 witness: a navigator tab other than the first and other than the
\* initial one is active under the "initialRoute" back behaviour, and both an
\* eligible BACK and a NAVIGATE to another navigator tab with a nested action
\* leave the index where it is and put the child's route there.
C15_Witness ==
    /\ HasState
    /\ state.index # 0
    /\ state.index # initialRouteIndex
    /\ shouldBackNavigateToInitialRoute
    /\ \E resp \in RespSet, t \in NavigatorPositions \ {state.index} :
            /\ resp[state.index] = "foreign"
            /\ resp[t] = "new"
            /\ GetStateForAction(Action(BACK, NoKey, NoName, FALSE), state, resp).ret.index
                   = state.index
            /\ At(GetStateForAction(Action(NAVIGATE, NoKey, At(order, t), TRUE),
                                     state, resp).ret.routes, state.index).routeName
                   = ForeignName

\* The active tab neither handled nor rejected the action: it is a leaf, or
\* its child router returned the route it was given (or, with no input
\* state, a falsy value).
ActiveTabPasses(resp) ==
    /\ ~AnswersNewRoute(resp, Working(resp).index)
    /\ ~(state # Null /\ IsNavigator(Working(resp).index) /\ resp[Working(resp).index] = "falsy")

NavigateNested(t) == Action(NAVIGATE, NoKey, At(order, t), TRUE)

\* C16: for a NAVIGATE naming a tab T of order and carrying a nested action,
\* when the active tab did not handle or reject the action: if T owns a child
\* router that returns a different, non-falsy route for T's current route,
\* the result has index T and the previous routes with T's entry replaced by
\* that route; if T is a leaf or its child returns a falsy or the identical
\* route, the result is a plain switch to T with the same routes array, or
\* null when T is already active and a state was supplied.
C16_NavigateWithNestedAction ==
    \A resp \in RespSet, t \in Positions :
        ActiveTabPasses(resp) =>
            LET res == GetStateForAction(NavigateNested(t), state, resp)
            IN  IF AnswersNewRoute(resp, t)
                THEN /\ res.ret # Null
                     /\ res.ret.ref = "copy"
                     /\ res.ret.index = t
                     /\ At(res.ret.routes, t)
                            = ChildGetStateForAction(resp[t], At(Working(resp).routes, t))
                     /\ At(res.ret.routes, t).ref = "child"
                     /\ \A j \in Positions \ {t} :
                            At(res.ret.routes, j) = At(Working(resp).routes, j)
                ELSE IF t = Working(resp).index /\ state # Null
                THEN res.ret = Null
                ELSE /\ res.ret # Null
                     /\ res.ret.index = t
                     /\ res.ret.routesRef = Working(resp).routesRef
                     /\ res.ret.routes = Working(resp).routes

\* C16 witness: from a returned state, a NAVIGATE with a nested action to an
\* inactive navigator tab, not the first one, puts the child's route there
\* and switches to it, and the same action is a plain switch when that child
\* router answers with a falsy value.
C16_Witness ==
    /\ HasState
    /\ \E t \in NavigatorPositions \ {state.index, 0} :
            /\ \E resp \in RespSet :
                    LET r == GetStateForAction(NavigateNested(t), state, resp).ret
                    IN  /\ ActiveTabPasses(resp)
                        /\ resp[t] = "foreign"
                        /\ r.index = t
                        /\ At(r.routes, t).routeName = ForeignName
            /\ \E resp \in RespSet :
                    /\ ActiveTabPasses(resp)
                    /\ resp[t] = "falsy"
                    /\ IsTabSwitchTo(GetStateForAction(NavigateNested(t), state, resp).ret, t)

\* C17: in the broadcast step, when the first inactive tab that reacts is
\* one whose child router returns a falsy result, the returned state has
\* index set to that tab and routes is the same array as before: the tab
\* becomes active with its stored route left in place.
C17_BroadcastFalsySwitches ==
    \A resp \in RespSet, action \in Actions :
        LET reacting == {i \in Positions \ {Working(resp).index} : Reacts(resp, i)}
            r == GetStateForAction(action, state, resp).ret
        IN  (/\ ReachesBroadcast(action, resp)
             /\ reacting # {}
             /\ resp[Lowest(reacting)] = "falsy")
            => /\ r # Null
               /\ r.index = Lowest(reacting)
               /\ r.routesRef = Working(resp).routesRef
               /\ r.routes = Working(resp).routes

\* C17 witness: the state in hand was returned by a broadcast from another
\* state in which its now active tab answered with a falsy value ahead of a
\* tab that answered with a new route; the route stored for it is the one
\* built at initialization.
C17_Witness ==
    /\ HasState
    /\ state.index # initialRouteIndex
    /\ IsNavigator(state.index)
    /\ At(state.routes, state.index).routeName = At(order, state.index)
    /\ \E resp \in RespSet :
            /\ resp[state.index] = "falsy"
            /\ \E i \in Positions : i > state.index /\ resp[i] = "new"
            /\ ~IsNavigator(initialRouteIndex)
            /\ state = AsInput(GetStateForAction(InitAction, Null, resp).ret)

\* C19: for every action and every valid input state, when getStateForAction
\* returns a state its routes differ from the input's routes in at most one
\* position, and that position is the index of the returned state; every
\* other entry is the identical route object.
C19_OneRouteReplaced ==
    HasState =>
        \A resp \in RespSet, action \in Actions :
            LET r == GetStateForAction(action, state, resp).ret
            IN  r # Null =>
                    /\ Len(r.routes) = Len(state.routes)
                    /\ \A j \in Positions \ {r.index} :
                            At(r.routes, j) = At(state.routes, j)

\* C19 witness: from a returned state whose active tab is not the last one,
\* a dispatch replaces the route of an inactive tab that is not the last one
\* either, and returns with that tab active.
C19_Witness ==
    /\ HasState
    /\ state.index # Len(order) - 1
    /\ \E resp \in RespSet, action \in Actions :
            LET r == GetStateForAction(action, state, resp).ret
            IN  /\ r # Null
                /\ r.index \notin {state.index, Len(order) - 1}
                /\ At(r.routes, r.index).ref = "child"

\* The route the default state holds for the tab at position i.
InitialRoute(i) ==
    [key |-> At(order, i), routeName |-> At(order, i), params |-> NoParams, ref |-> "held"]

\* C20: the route of a leaf tab is never replaced: after any sequence of
\* dispatches that starts with no input state it is still the initial
\* {key: routeName, routeName} entry, so the params and the nested action of
\* a NAVIGATE to a leaf tab are never stored; and for a router of leaf tabs
\* every dispatch result is null, the input state itself, or the input state
\* with only index changed.
C20_LeafRoutesNeverReplaced ==
    HasState =>
        /\ \A i \in Positions : ~IsNavigator(i) => At(state.routes, i) = InitialRoute(i)
        /\ AllLeaves =>
                \A action \in Actions :
                    LET r == GetStateForAction(action, state, AllSame).ret
                    IN  \/ r = Null
                        \/ r = state
                        \/ \E i \in Positions \ {state.index} :
                                r = [state EXCEPT !.ref = "copy", !.index = i]

\* C20 witness: the state in hand was returned for a NAVIGATE that carried
\* params to a leaf tab other than the initial one, that tab is active, and
\* from it a NAVIGATE with a nested action reaches another leaf tab.
C20_Witness ==
    /\ HasState
    /\ ~IsNavigator(state.index)
    /\ state.index # initialRouteIndex
    /\ \E resp \in RespSet :
            state = AsInput(GetStateForAction(NavigateWithParams(At(order, state.index)),
                                              Null, resp).ret)
    /\ \E t \in Positions \ {state.index} :
            /\ ~IsNavigator(t)
            /\ GetStateForAction(NavigateNested(t), state, AllSame).ret.index = t


(***************************************************************************)
(* The path codec claims, checked under SpecCodec.                         *)
(***************************************************************************)
ActiveRoute == At(state.routes, state.index)

ActiveSegment == paths(At(order, state.index))

\* The keys and values of a params object; undefined has none.
ParamsOf(params) == IF params = NoParams THEN <<>> ELSE params

\* `result' holds what `own' holds, except where `child' holds something.
Overlaid(result, own, child) ==
    /\ DOMAIN ParamsOf(result) = DOMAIN ParamsOf(own) \cup DOMAIN ParamsOf(child)
    /\ \A k \in DOMAIN ParamsOf(child) : ParamsOf(result)[k] = ParamsOf(child)[k]
    /\ \A k \in DOMAIN ParamsOf(own) \ DOMAIN ParamsOf(child) :
            ParamsOf(result)[k] = ParamsOf(own)[k]

\* C18 (as stated): for a navigator tab getPathAndParamsForState returns the
\* tab's segment, a "/" and the child's path, for every configured segment,
\* the empty one included, and the route's params overlaid by the child's;
\* for a leaf tab it returns exactly the segment and the route's params.
C18_SegmentSlashChildPath ==
    HasState =>
        \A child \in EncodeAnswers :
            LET result == GetPathAndParamsForState(state, child)
            IN  IF IsNavigator(state.index)
                THEN /\ result.path = ActiveSegment \o <<Slash>> \o child.path
                     /\ Overlaid(result.params, ActiveRoute.params, child.params)
                ELSE /\ result.path = ActiveSegment
                     /\ result.params = ActiveRoute.params

\* C18 (amended): for a navigator tab the path is the segment, a "/" and the
\* child's path when the segment is not empty, and the child's path alone
\* when it is; the params are the route's overlaid by the child's. For a leaf
\* tab the path is exactly the segment and the params the route's.
C18_PathAndParams ==
    HasState =>
        \A child \in EncodeAnswers :
            LET result == GetPathAndParamsForState(state, child)
            IN  IF IsNavigator(state.index)
                THEN /\ result.path = IF ActiveSegment = <<>>
                                      THEN child.path
                                      ELSE ActiveSegment \o <<Slash>> \o child.path
                     /\ Overlaid(result.params, ActiveRoute.params, child.params)
                ELSE /\ result.path = ActiveSegment
                     /\ result.params = ActiveRoute.params

\* A navigator tab with the empty segment is active, its route carries
\* params, and the child overrides one of them: the path is the child's.
C18_Witness ==
    /\ HasState
    /\ IsNavigator(state.index)
    /\ ActiveSegment = <<>>
    /\ ActiveRoute.params = ForeignParams
    /\ \E child \in EncodeAnswers :
            LET result == GetPathAndParamsForState(state, child)
            IN  /\ child.path = <<"c", Slash, "d">>
                /\ result.path = child.path
                /\ result.params = [id |-> "child", tab |-> "route"]


\* Every tab is a leaf, no two tabs share a segment and no segment holds a "/".
RoundTripConfig ==
    /\ AllLeaves
    /\ \A a, b \in TabSet : a # b => paths(a) # paths(b)
    /\ \A a \in TabSet : \A n \in 1 .. Len(paths(a)) : paths(a)[n] # Slash

\* C11: in a router whose tabs are all leaves with pairwise distinct segments
\* free of "/" (an empty segment allowed), the path getPathAndParamsForState
\* gives for a state is decoded by getActionForPathAndParams to a NAVIGATE
\* action whose routeName is the state's active tab.
C11_PathRoundTrip ==
    RoundTripConfig /\ HasState =>
        \A child \in EncodeAnswers, decode \in DecodeSet :
            LET path == GetPathAndParamsForState(state, child).path
                action == GetActionForPathAndParams(path, NoParams, decode)
            IN  /\ action # Null
                /\ action.type = NAVIGATE
                /\ action.routeName = At(order, state.index)

\* The active tab of an all-leaf router has the empty segment, another tab a
\* configured one, and the empty path decodes to the active tab.
C11_Witness ==
    /\ RoundTripConfig
    /\ HasState
    /\ state.index > 0
    /\ ActiveSegment = <<>>
    /\ \E a \in TabSet : paths(a) = <<"p">>
    /\ \E child \in EncodeAnswers, decode \in DecodeSet :
            LET path == GetPathAndParamsForState(state, child).path
                action == GetActionForPathAndParams(path, NoParams, decode)
            IN  /\ path = <<>>
                /\ action # Null
                /\ action.routeName = At(order, state.index)

\* The text of a path before its first "/".
FirstComponent(path) ==
    LET n == Cardinality({m \in 1 .. Len(path) : \A l \in 1 .. m : path[l] # Slash})
    IN  SubSeq(path, 1, n)

\* The tabs whose segment is the first component of the path.
Matching(path) == {i \in Positions : paths(At(order, i)) = FirstComponent(path)}

\* The tabs whose child router decodes the path.
Decoding(decode) == {i \in NavigatorPositions : decode[i] = "action"}

\* C13: getActionForPathAndParams returns a NAVIGATE action for the first
\* tab in order whose segment equals the first "/"-separated component of
\* the path, even when a child router could decode the whole path; otherwise
\* what the first child router in tab order decodes the whole path to;
\* otherwise null, and null only when no segment matches and no child decodes.
\* The function reads the router's configuration alone, which no dispatch
\* changes, so each router is examined once, as constructed.
C13_FirstMatchThenFirstChild ==
    state = Null =>
        \A path \in DecodeInputs, params \in {NoParams, ActionParams}, decode \in DecodeSet :
            LET action == GetActionForPathAndParams(path, params, decode)
            IN  /\ Matching(path) # {} =>
                        /\ action # Null
                        /\ action.type = NAVIGATE
                        /\ action.routeName = At(order, Lowest(Matching(path)))
                /\ Matching(path) = {} /\ Decoding(decode) # {} =>
                        action = ChildAction(Lowest(Decoding(decode)), path)
                /\ action = Null <=> (Matching(path) = {} /\ Decoding(decode) = {})

\* Two tabs share the segment "p", the child router of an earlier tab decodes
\* paths, and "p/c" is decoded to the first of the two tabs.
C13_Witness ==
    /\ state = Null
    /\ IsNavigator(0) /\ paths(At(order, 0)) # <<"p">>
    /\ paths(At(order, 1)) = <<"p">>
    /\ paths(At(order, 2)) = <<"p">>
    /\ \E decode \in DecodeSet :
            LET action == GetActionForPathAndParams(<<"p", Slash, "c">>, NoParams, decode)
            IN  /\ decode[0] = "action"
                /\ action # Null
                /\ action.routeName = At(order, 1)

====
